---- MODULE Spec2Model ----
(***************************************************************************)
(* A model of apple-codesign/src/app_store_connect.rs: the                 *)
(* ConnectTokenEncoder (JWT minting) and the AppStoreConnectClient (the    *)
(* Notary API client with its Mutex-protected token cache).                *)
(*                                                                         *)
(* Option<T> is a sequence of length at most one (<<>> is None, <<x>> is   *)
(* Some(x)).  Result<T, E> and a panic are records [kind, val, err].       *)
(* u64 arithmetic is done modulo U64Modulus, a scaled-down 2^64.           *)
(***************************************************************************)
EXTENDS Integers, Sequences, FiniteSets, TLC

(* ------------------------------ bounds --------------------------------- *)

\* Width of the model's u64 (the program's is 64 bits).
U64Bits == 10

U64Modulus == 2 ^ U64Bits

\* Number of threads sharing one AppStoreConnectClient.
NumCallers == 2

\* Cap on the new_token calls made through get_token (a malformed key makes
\* every get_token mint again, without end).
MaxMintCalls == 2

\* Cap on the length of the record of direct new_token calls.
MaxMinted == 2

Callers == 1 .. NumCallers

NoCaller == 0

(* ---------------------------- Result<T, E> ----------------------------- *)

Ok(v) == [kind |-> "Ok", val |-> <<v>>, err |-> ""]

Err(e) == [kind |-> "Err", val |-> <<>>, err |-> e]

\* The thread unwinds: an arithmetic overflow with overflow checks on.
Panic == [kind |-> "Panic", val |-> <<>>, err |-> "attempt to add with overflow"]

None == <<>>

Some(v) == <<v>>

(* ------------------------- ConnectTokenEncoder ------------------------- *)

\* key_ok: whether jsonwebtoken can sign with encoding_key (from_ecdsa_der
\* stores the DER bytes unchecked, so an encoder can hold a malformed key).
Identities ==
  { [key_id |-> "DEADBEEF42", issuer_id |-> "issuer-1", key_ok |-> TRUE],
    [key_id |-> "ABC123", issuer_id |-> "issuer-2", key_ok |-> TRUE],
    [key_id |-> "DEADBEEF42", issuer_id |-> "issuer-1", key_ok |-> FALSE] }

\* The duration get_token asks for.
TokenDuration == 300

\* Durations passed to new_token by its direct callers.
Durations == {0, 1, TokenDuration, U64Modulus - 1}

\* jsonwebtoken::encode(&header, &claims, &key): the signed JWT, as the header
\* and the claims it decodes to; an error when the key cannot sign.
encode(header, claims, enc) ==
  IF enc.key_ok
    THEN Ok([kid |-> header.kid, alg |-> header.alg, iss |-> claims.iss,
             iat |-> claims.iat, exp |-> claims.exp, aud |-> claims.aud])
    ELSE Err("JwtEncoding")

\* `now + duration` on u64: the sum when it fits; otherwise a panic (overflow
\* checks on, as in a debug build) or the wrapped sum (off, as in a release
\* build).  The set of outcomes: <<"panic">> or <<"sum", n>>.
AddU64(a, b) ==
  IF a + b < U64Modulus
    THEN { <<"sum", a + b>> }
    ELSE { <<"panic", 0>>, <<"sum", (a + b) % U64Modulus>> }

\* new_token with issued_at and issuer swapped for other values at hand: iat
\* the epoch instead of now, iss the key id instead of the issuer id.
new_token_WrongClaims(enc, now, duration) ==
  LET header == [kid |-> enc.key_id, alg |-> "ES256"]
  IN  { IF s[1] = "panic"
          THEN Panic
          ELSE encode(header,
                      [iss |-> enc.key_id, iat |-> 0, exp |-> s[2],
                       aud |-> "appstoreconnect-v1"],
                      enc)
        : s \in AddU64(now, duration) }

\* new_token stamping iat with a reading taken once (the epoch), not now.
new_token_StaleClock(enc, now, duration) ==
  LET header == [kid |-> enc.key_id, alg |-> "ES256"]
  IN  { IF s[1] = "panic"
          THEN Panic
          ELSE encode(header,
                      [iss |-> enc.issuer_id, iat |-> 0, exp |-> s[2],
                       aud |-> "appstoreconnect-v1"],
                      enc)
        : s \in AddU64(0, duration) }

\* ConnectTokenEncoder::new_token(&self, duration) with SystemTime::now()
\* reading `now`: the set of its possible outcomes.
new_token(enc, now, duration) ==
  LET header == [kid |-> enc.key_id, alg |-> "ES256"]
  IN  { IF s[1] = "panic"
          THEN Panic
          ELSE encode(header,
                      [iss |-> enc.issuer_id, iat |-> now, exp |-> s[2],
                       aud |-> "appstoreconnect-v1"],
                      enc)
        : s \in AddU64(now, duration) }

(* ------------------------------- state --------------------------------- *)

VARIABLES
  connect_token,  \* the client's ConnectTokenEncoder (the Signing Identity)
  clock,          \* SystemTime::now() in seconds since the epoch
  token,          \* AppStoreConnectClient.token: the Option inside the Mutex
  lock,           \* the caller holding the Mutex guard, or NoCaller
  pc,             \* each caller's position in its operation
  op,             \* each caller's operation
  held,           \* each caller's local `token` (Option)
  sent,           \* the HTTP requests each caller's current call has sent
  result,         \* each caller's returned Result (Option)
  observed,       \* the status string the caller's get_submission read (Option)
  outcome,        \* what into_result made of each caller's result (Option)
  received,       \* the responses each caller's current call read, when recorded
  earlier,        \* what each caller's call before this one saw, when recorded
  search,         \* from_api_key_id: its environment, its position, its result
  poisoned,       \* the Mutex is poisoned: a thread panicked holding the guard
  mintCalls,      \* new_token calls made by get_token
  minted          \* direct new_token calls: [duration, at, result], oldest first

vars == <<connect_token, clock, token, lock, pc, op, held, sent, result,
          observed, outcome, received, earlier, search, poisoned, mintCalls,
          minted>>

Ops == {"create_submission", "get_submission", "get_submission_log"}

\* No call of from_api_key_id under way.
NoSearch == [pc |-> "off"]

\* AppStoreConnectClient::new: an empty cache, nothing minted.
ClientInit ==
  /\ clock = 0
  /\ token = None
  /\ lock = NoCaller
  /\ pc = [c \in Callers |-> "idle"]
  /\ op = [c \in Callers |-> "none"]
  /\ held = [c \in Callers |-> None]
  /\ sent = [c \in Callers |-> <<>>]
  /\ result = [c \in Callers |-> None]
  /\ observed = [c \in Callers |-> None]
  /\ outcome = [c \in Callers |-> None]
  /\ received = [c \in Callers |-> <<>>]
  /\ earlier = [c \in Callers |-> None]
  /\ poisoned = FALSE
  /\ mintCalls = 0
  /\ minted = <<>>

\* A client made with any of the identities.
Init ==
  /\ connect_token \in Identities
  /\ ClientInit
  /\ search = NoSearch

(* ------------------------------ the clock ------------------------------ *)

\* The wall-clock readings of the model: the epoch, a second later, and the
\* second after a token minted at the epoch has expired.
ClockReadings == {0, 1, TokenDuration + 1}

\* Time passes.
ClockAdvance ==
  /\ \E t \in ClockReadings : t > clock /\ clock' = t
  /\ UNCHANGED <<received, connect_token, token, lock, pc, op, held, sent,
                 result, observed, outcome, poisoned, mintCalls, minted, search,
                 earlier>>

\* SystemTime is not monotonic: the system clock is set back.
ClockSetBack ==
  /\ \E t \in ClockReadings : t < clock /\ clock' = t
  /\ UNCHANGED <<received, connect_token, token, lock, pc, op, held, sent,
                 result, observed, outcome, poisoned, mintCalls, minted, search,
                 earlier>>

(* ------------------------ the Notary API server ------------------------ *)

APPLE_NOTARY_SUBMIT_SOFTWARE_URL == "https://appstoreconnect.apple.com/notary/v2/submissions"

SubmissionId == "2efe2717-52ef-43a5-96dc-0797e4ca1041"

DeveloperLogUrl == "https://notary-artifacts.example/log.json"

\* The strings a server puts in data.attributes.status.
StatusStrings ==
  {"Accepted", "In Progress", "Invalid", "Rejected", "InProgress", "Superseded"}

\* NewSubmissionResponseDataAttributes as the server fills it.
UploadCredentials ==
  [aws_access_key_id |-> "ASIAEXAMPLE", aws_secret_access_key |-> "secret",
   aws_session_token |-> "session", bucket |-> "notary-submissions", object |-> "prod/1"]

\* A body without upload credentials.
NoAttributes ==
  [aws_access_key_id |-> "", aws_secret_access_key |-> "",
   aws_session_token |-> "", bucket |-> "", object |-> ""]

\* Response bodies: the three documents of the Notary API, a JSON document of
\* another shape, a body that is not JSON at all, and a body whose read fails
\* (the connection breaks after the status line).
Bodies ==
  { [shape |-> "NewSubmissionResponse", id |-> SubmissionId, status |-> "", url |-> "",
     attributes |-> UploadCredentials],
    [shape |-> "SubmissionLogResponse", id |-> SubmissionId, status |-> "",
     url |-> DeveloperLogUrl, attributes |-> NoAttributes],
    [shape |-> "OtherJson", id |-> "", status |-> "", url |-> "",
     attributes |-> NoAttributes],
    [shape |-> "NotJson", id |-> "", status |-> "", url |-> "",
     attributes |-> NoAttributes],
    [shape |-> "Truncated", id |-> "", status |-> "", url |-> "",
     attributes |-> NoAttributes] }
  \cup { [shape |-> "SubmissionResponse", id |-> SubmissionId, status |-> s, url |-> "",
          attributes |-> NoAttributes]
         : s \in StatusStrings }

HttpStatuses == {200, 500}

\* req.send() failed: no response.
TransportError ==
  [transport_ok |-> FALSE, status |-> 0,
   body |-> [shape |-> "Truncated", id |-> "", status |-> "", url |-> "",
             attributes |-> NoAttributes]]

\* What req.send() to the Notary API can come back with.
Responses ==
  {TransportError} \cup [transport_ok : {TRUE}, status : HttpStatuses, body : Bodies]

\* What the GET of developer_log_url can come back with: the log is a JSON
\* document of the server's choosing.
LogResponses ==
  {TransportError}
  \cup [transport_ok : {TRUE}, status : HttpStatuses,
        body : {b \in Bodies : b.shape \notin {"SubmissionResponse", "NewSubmissionResponse"}}]

\* The deserializer without the rename of InProgress to "In Progress".
SubmissionResponseStatusNoRename(s) ==
  CASE s = "Accepted" -> "Accepted"
    [] s = "InProgress" -> "InProgress"
    [] s = "Invalid" -> "Invalid"
    [] s = "Rejected" -> "Rejected"
    [] OTHER -> "Unknown"

\* serde's Deserialize for SubmissionResponseStatus (rename_all PascalCase,
\* InProgress renamed "In Progress", #[serde(other)] Unknown).
SubmissionResponseStatus(s) ==
  CASE s = "Accepted" -> "Accepted"
    [] s = "In Progress" -> "InProgress"
    [] s = "Invalid" -> "Invalid"
    [] s = "Rejected" -> "Rejected"
    [] OTHER -> "Unknown"

\* response.json::<T>(): the typed document, or a reqwest decode error.
json(T, body) ==
  IF body.shape # T
    THEN Err("Reqwest")
    ELSE CASE T = "NewSubmissionResponse" ->
                Ok([id |-> body.id, attributes |-> body.attributes])
           [] T = "SubmissionResponse" ->
                Ok([id |-> body.id, status |-> SubmissionResponseStatus(body.status)])
           [] T = "SubmissionLogResponse" -> Ok([developer_log_url |-> body.url])

\* response.json::<Value>(): any JSON document, as it is.
json_value(body) ==
  IF body.shape \in {"NotJson", "Truncated"} THEN Err("Reqwest") ELSE Ok(body)

\* response.text(): the body as text, or a reqwest error when its read fails.
text(body) ==
  IF body.shape = "Truncated" THEN Err("Reqwest") ELSE Ok(body)

\* into_result reporting a rejection as NotarizeInvalid.
into_result_RejectedAsInvalid(self) ==
  CASE self.status = "Accepted" -> Ok(self)
    [] self.status = "InProgress" -> Err("NotarizeIncomplete")
    [] self.status = "Invalid" -> Err("NotarizeInvalid")
    [] self.status = "Rejected" -> Err("NotarizeInvalid")
    [] self.status = "Unknown" -> Err("NotarizeInvalid")

\* SubmissionResponse::into_result(self).
into_result(self) ==
  CASE self.status = "Accepted" -> Ok(self)
    [] self.status = "InProgress" -> Err("NotarizeIncomplete")
    [] self.status = "Invalid" -> Err("NotarizeInvalid")
    [] self.status = "Rejected" -> Err("NotarizeRejected(0, Notarization error)")
    [] self.status = "Unknown" -> Err("NotarizeInvalid")

(* ------------------------ AppStoreConnectClient ------------------------ *)

\* A caller (a thread sharing the client) calls one of the three operations.
CallOn(c, o) ==
  /\ pc[c] \in {"idle", "done"}
  /\ mintCalls < MaxMintCalls
  /\ pc' = [pc EXCEPT ![c] = "lock"]
  /\ op' = [op EXCEPT ![c] = o]
  /\ held' = [held EXCEPT ![c] = None]
  /\ sent' = [sent EXCEPT ![c] = <<>>]
  /\ result' = [result EXCEPT ![c] = None]
  /\ observed' = [observed EXCEPT ![c] = None]
  /\ outcome' = [outcome EXCEPT ![c] = None]
  /\ received' = [received EXCEPT ![c] = <<>>]
  /\ UNCHANGED <<connect_token, clock, token, lock, poisoned, mintCalls, minted,
                 search>>

Call(c, o) == CallOn(c, o) /\ UNCHANGED earlier

\* The same call, with what the caller's call before it saw kept on record.
CallSeen(c, o) ==
  /\ CallOn(c, o)
  /\ earlier' = [earlier EXCEPT ![c] =
       Some([op |-> op[c], result |-> result[c], observed |-> observed[c],
             outcome |-> outcome[c]])]

\* A lock that excludes nobody.
LockFreeNoMutex == TRUE

\* Mutex::lock returns when no other thread holds the guard.
LockFree == lock = NoCaller

\* get_token minting on every call, whatever the cache holds.
GetTokenLockAlwaysMint(c) ==
  /\ pc[c] = "lock"
  /\ LockFree
  /\ pc' = [pc EXCEPT ![c] = "mint"]
  /\ lock' = c
  /\ UNCHANGED <<received, connect_token, clock, token, op, held, sent, result,
                 observed, outcome, poisoned, mintCalls, minted, search,
                 earlier>>

\* get_token minting again once the cached token has expired.
GetTokenLockExpiry(c) ==
  /\ pc[c] = "lock"
  /\ LockFree
  /\ pc' = [pc EXCEPT ![c] =
       IF token = None \/ clock > token[1].exp THEN "mint" ELSE "cached"]
  /\ lock' = c
  /\ UNCHANGED <<received, connect_token, clock, token, op, held, sent, result,
                 observed, outcome, poisoned, mintCalls, minted, search,
                 earlier>>

\* get_token, `self.token.lock().unwrap()` and `token.is_none()`: the caller
\* takes the guard and looks at the cache.  unwrap panics on a poisoned Mutex.
GetTokenLock(c) ==
  /\ pc[c] = "lock"
  /\ LockFree
  /\ IF poisoned
       THEN /\ pc' = [pc EXCEPT ![c] = "done"]
            /\ result' = [result EXCEPT ![c] = Some(Panic)]
            /\ lock' = lock
       ELSE /\ pc' = [pc EXCEPT ![c] = IF token = None THEN "mint" ELSE "cached"]
            /\ result' = result
            /\ lock' = c
  /\ UNCHANGED <<received, connect_token, clock, token, op, held, sent,
                 observed, outcome, poisoned, mintCalls, minted, search,
                 earlier>>

\* get_token going on without a token when new_token failed.
GetTokenMint_ErrorDropped(c) ==
  /\ pc[c] = "mint"
  /\ mintCalls' = mintCalls + 1
  /\ lock' = NoCaller
  /\ pc' = [pc EXCEPT ![c] = "send"]
  /\ \E r \in new_token(connect_token, clock, TokenDuration) :
       IF r.kind = "Ok"
         THEN /\ token' = Some(r.val[1])
              /\ held' = [held EXCEPT ![c] = Some(r.val[1])]
         ELSE UNCHANGED <<token, held>>
  /\ UNCHANGED <<received, connect_token, clock, op, sent, observed, outcome,
                 minted, search, earlier, result, poisoned>>

\* get_token, `token.replace(self.connect_token.new_token(300)?)` and the
\* return of the clone: the guard is dropped on every way out; a panic under
\* the guard poisons the Mutex.
GetTokenMint(c) ==
  /\ pc[c] = "mint"
  /\ mintCalls' = mintCalls + 1
  /\ lock' = NoCaller
  /\ \E r \in new_token(connect_token, clock, TokenDuration) :
       CASE r.kind = "Ok" ->
              /\ token' = Some(r.val[1])
              /\ held' = [held EXCEPT ![c] = Some(r.val[1])]
              /\ pc' = [pc EXCEPT ![c] = "send"]
              /\ UNCHANGED <<result, poisoned>>
         [] r.kind = "Err" ->
              /\ result' = [result EXCEPT ![c] = Some(r)]
              /\ pc' = [pc EXCEPT ![c] = "done"]
              /\ UNCHANGED <<token, held, poisoned>>
         [] r.kind = "Panic" ->
              /\ result' = [result EXCEPT ![c] = Some(r)]
              /\ pc' = [pc EXCEPT ![c] = "done"]
              /\ poisoned' = TRUE
              /\ UNCHANGED <<token, held>>
  /\ UNCHANGED <<received, connect_token, clock, op, sent, observed, outcome,
                 minted, search, earlier>>

\* get_token returning the clone with the guard still alive in the caller.
GetTokenCached_GuardKept(c) ==
  /\ pc[c] = "cached"
  /\ held' = [held EXCEPT ![c] = token]
  /\ lock' = lock
  /\ pc' = [pc EXCEPT ![c] = "send"]
  /\ UNCHANGED <<received, connect_token, clock, token, op, sent, result,
                 observed, outcome, poisoned, mintCalls, minted, search,
                 earlier>>

\* get_token with the cache filled: the clone of the cached token.
GetTokenCached(c) ==
  /\ pc[c] = "cached"
  /\ held' = [held EXCEPT ![c] = token]
  /\ lock' = NoCaller
  /\ pc' = [pc EXCEPT ![c] = "send"]
  /\ UNCHANGED <<received, connect_token, clock, token, op, sent, result,
                 observed, outcome, poisoned, mintCalls, minted, search,
                 earlier>>

\* The first requests with .bearer_auth(token) left off the log reference GET.
Request_NoBearerOnLogs(c) ==
  CASE op[c] = "create_submission" ->
         [method |-> "POST", url |-> APPLE_NOTARY_SUBMIT_SOFTWARE_URL, bearer |-> held[c]]
    [] op[c] = "get_submission" ->
         [method |-> "GET", url |-> <<APPLE_NOTARY_SUBMIT_SOFTWARE_URL, SubmissionId>>,
          bearer |-> held[c]]
    [] op[c] = "get_submission_log" ->
         [method |-> "GET",
          url |-> <<APPLE_NOTARY_SUBMIT_SOFTWARE_URL, SubmissionId, "logs">>,
          bearer |-> None]

\* The request each operation builds first: .bearer_auth(token) on all three.
Request(c) ==
  CASE op[c] = "create_submission" ->
         [method |-> "POST", url |-> APPLE_NOTARY_SUBMIT_SOFTWARE_URL, bearer |-> held[c]]
    [] op[c] = "get_submission" ->
         [method |-> "GET", url |-> <<APPLE_NOTARY_SUBMIT_SOFTWARE_URL, SubmissionId>>,
          bearer |-> held[c]]
    [] op[c] = "get_submission_log" ->
         [method |-> "GET",
          url |-> <<APPLE_NOTARY_SUBMIT_SOFTWARE_URL, SubmissionId, "logs">>,
          bearer |-> held[c]]

\* `req.send()` goes out.
Send(c) ==
  /\ pc[c] = "send"
  /\ sent' = [sent EXCEPT ![c] = Append(@, Request(c))]
  /\ pc' = [pc EXCEPT ![c] = "wait"]
  /\ UNCHANGED <<received, connect_token, clock, token, lock, op, held, result,
                 observed, outcome, poisoned, mintCalls, minted, search,
                 earlier>>

\* What create_submission returns on a response.
create_submission_result(resp) ==
  IF ~resp.transport_ok
    THEN Err("Reqwest")
    ELSE IF resp.status = 200
           THEN json("NewSubmissionResponse", resp.body)
           ELSE IF text(resp.body).kind = "Err"
                  THEN Err("Reqwest")
                  ELSE Err("NotarizeServerError")

\* get_submission refusing every response but a 200, as create_submission does.
get_submission_result_StatusChecked(resp) ==
  IF ~resp.transport_ok
    THEN Err("Reqwest")
    ELSE IF resp.status = 200
           THEN json("SubmissionResponse", resp.body)
           ELSE Err("NotarizeServerError")

\* What get_submission returns on a response.
get_submission_result(resp) ==
  IF ~resp.transport_ok THEN Err("Reqwest") ELSE json("SubmissionResponse", resp.body)

\* What get_submission_log makes of its first response (the log reference).
get_submission_log_reference(resp) ==
  IF ~resp.transport_ok THEN Err("Reqwest") ELSE json("SubmissionLogResponse", resp.body)

\* What get_submission_log returns on its second response (the log).
get_submission_log_result(resp) ==
  IF ~resp.transport_ok THEN Err("Reqwest") ELSE json_value(resp.body)

\* create_submission and get_submission sending the request again when the
\* transport failed.
ReceiveOn_Retry(c, resp) ==
  /\ pc[c] = "wait"
  /\ op[c] \in {"create_submission", "get_submission"}
  /\ IF resp.transport_ok
       THEN /\ observed' = [observed EXCEPT ![c] =
                  IF op[c] = "get_submission" /\ get_submission_result(resp).kind = "Ok"
                    THEN Some(resp.body.status)
                    ELSE None]
            /\ result' = [result EXCEPT ![c] =
                  Some(IF op[c] = "create_submission"
                         THEN create_submission_result(resp)
                         ELSE get_submission_result(resp))]
            /\ pc' = [pc EXCEPT ![c] = "done"]
       ELSE /\ pc' = [pc EXCEPT ![c] = "send"]
            /\ UNCHANGED <<observed, result>>
  /\ UNCHANGED <<connect_token, clock, token, lock, op, held, sent, outcome,
                 poisoned, mintCalls, minted, search, earlier>>

\* get_submission answering from the status its caller saw last, when that
\* was one the client knows to be final.
ReceiveOn_Sticky(c, resp) ==
  /\ pc[c] = "wait"
  /\ op[c] \in {"create_submission", "get_submission"}
  /\ observed' = [observed EXCEPT ![c] =
       IF op[c] = "get_submission" /\ get_submission_result(resp).kind = "Ok"
         THEN Some(resp.body.status)
         ELSE None]
  /\ result' = [result EXCEPT ![c] =
       Some(IF op[c] = "create_submission"
              THEN create_submission_result(resp)
              ELSE IF /\ earlier[c] # None
                      /\ earlier[c][1].observed # None
                      /\ earlier[c][1].observed[1] \in {"Invalid", "Rejected"}
                     THEN Ok([id |-> SubmissionId,
                              status |-> earlier[c][1].observed[1]])
                     ELSE get_submission_result(resp))]
  /\ pc' = [pc EXCEPT ![c] = "done"]
  /\ UNCHANGED <<connect_token, clock, token, lock, op, held, sent, outcome,
                 poisoned, mintCalls, minted, search, earlier>>

\* create_submission and get_submission from `req.send()?` to the return, on
\* the response resp.
ReceiveOn(c, resp) ==
  /\ pc[c] = "wait"
  /\ op[c] \in {"create_submission", "get_submission"}
  /\ observed' = [observed EXCEPT ![c] =
       IF op[c] = "get_submission" /\ get_submission_result(resp).kind = "Ok"
         THEN Some(resp.body.status)
         ELSE None]
  /\ result' = [result EXCEPT ![c] =
       Some(IF op[c] = "create_submission"
              THEN create_submission_result(resp)
              ELSE get_submission_result(resp))]
  /\ pc' = [pc EXCEPT ![c] = "done"]
  /\ UNCHANGED <<connect_token, clock, token, lock, op, held, sent, outcome,
                 poisoned, mintCalls, minted, search, earlier>>

Receive(c) ==
  /\ pc[c] = "wait"
  /\ \E resp \in Responses : ReceiveOn(c, resp) /\ UNCHANGED received

\* get_submission_log going on to the second GET on any first response that
\* arrived, decoded or not.
ReceiveLogReferenceOn_Unchecked(c, resp) ==
  /\ pc[c] = "wait"
  /\ op[c] = "get_submission_log"
  /\ IF resp.transport_ok
       THEN /\ sent' = [sent EXCEPT ![c] =
                  Append(@, [method |-> "GET", url |-> resp.body.url, bearer |-> None])]
            /\ pc' = [pc EXCEPT ![c] = "wait2"]
            /\ result' = result
       ELSE /\ result' = [result EXCEPT ![c] = Some(Err("Reqwest"))]
            /\ pc' = [pc EXCEPT ![c] = "done"]
            /\ sent' = sent
  /\ UNCHANGED <<connect_token, clock, token, lock, op, held, observed, outcome,
                 poisoned, mintCalls, minted, search, earlier>>

\* get_submission_log from the first `req.send()?` to the second send, on the
\* response resp: the GET of developer_log_url, with no bearer token.
ReceiveLogReferenceOn(c, resp) ==
  /\ pc[c] = "wait"
  /\ op[c] = "get_submission_log"
  /\ LET ref == get_submission_log_reference(resp)
     IN  IF ref.kind = "Ok"
           THEN /\ sent' = [sent EXCEPT ![c] =
                      Append(@, [method |-> "GET",
                                 url |-> ref.val[1].developer_log_url,
                                 bearer |-> None])]
                /\ pc' = [pc EXCEPT ![c] = "wait2"]
                /\ result' = result
           ELSE /\ result' = [result EXCEPT ![c] = Some(ref)]
                /\ pc' = [pc EXCEPT ![c] = "done"]
                /\ sent' = sent
  /\ UNCHANGED <<connect_token, clock, token, lock, op, held, observed, outcome,
                 poisoned, mintCalls, minted, search, earlier>>

ReceiveLogReference(c) ==
  /\ pc[c] = "wait"
  /\ \E resp \in Responses : ReceiveLogReferenceOn(c, resp) /\ UNCHANGED received

\* get_submission_log from the second `send()?` to the return, on the
\* response resp.
ReceiveLogOn(c, resp) ==
  /\ pc[c] = "wait2"
  /\ result' = [result EXCEPT ![c] = Some(get_submission_log_result(resp))]
  /\ pc' = [pc EXCEPT ![c] = "done"]
  /\ UNCHANGED <<connect_token, clock, token, lock, op, held, sent, observed,
                 outcome, poisoned, mintCalls, minted, search, earlier>>

ReceiveLog(c) ==
  /\ pc[c] = "wait2"
  /\ \E resp \in LogResponses : ReceiveLogOn(c, resp) /\ UNCHANGED received

\* The same three steps with the response read kept on record.
ReceiveSeen(c) ==
  /\ pc[c] = "wait"
  /\ \E resp \in Responses :
       ReceiveOn(c, resp) /\ received' = [received EXCEPT ![c] = Append(@, resp)]

ReceiveLogReferenceSeen(c) ==
  /\ pc[c] = "wait"
  /\ \E resp \in Responses :
       ReceiveLogReferenceOn(c, resp)
       /\ received' = [received EXCEPT ![c] = Append(@, resp)]

ReceiveLogSeen(c) ==
  /\ pc[c] = "wait2"
  /\ \E resp \in LogResponses :
       ReceiveLogOn(c, resp) /\ received' = [received EXCEPT ![c] = Append(@, resp)]

\* The caller of get_submission applies into_result to the record it got.
IntoResult(c) ==
  /\ pc[c] = "done"
  /\ op[c] = "get_submission"
  /\ outcome[c] = None
  /\ result[c] # None
  /\ result[c][1].kind = "Ok"
  /\ outcome' = [outcome EXCEPT ![c] = Some(into_result(result[c][1].val[1]))]
  /\ UNCHANGED <<received, connect_token, clock, token, lock, pc, op, held,
                 sent, result, observed, poisoned, mintCalls, minted, search,
                 earlier>>

(* ------------------------ direct new_token calls ----------------------- *)

\* The last MaxMinted - 1 entries of the record, to make room for one more.
Recent(s) ==
  IF Len(s) < MaxMinted THEN s ELSE SubSeq(s, Len(s) - MaxMinted + 2, Len(s))

\* NewToken keeping what it minted in the client's cache.
NewTokenCaching(duration) ==
  /\ \E r \in new_token(connect_token, clock, duration) :
       /\ minted' = Append(Recent(minted), [duration |-> duration, at |-> clock, result |-> r])
       /\ token' = IF r.kind = "Ok" THEN Some(r.val[1]) ELSE token
  /\ UNCHANGED <<received, connect_token, clock, lock, pc, op, held, sent,
                 result, observed, outcome, poisoned, mintCalls, search,
                 earlier>>

\* A holder of an encoder of the same identity calls new_token(duration).
NewToken(duration) ==
  /\ \E r \in new_token(connect_token, clock, duration) :
       minted' = Append(Recent(minted), [duration |-> duration, at |-> clock, result |-> r])
  /\ UNCHANGED <<received, connect_token, clock, token, lock, pc, op, held,
                 sent, result, observed, outcome, poisoned, mintCalls, search,
                 earlier>>

(* --------------------------- specifications ---------------------------- *)

ClientNext ==
  \E c \in Callers :
    \/ \E o \in Ops : Call(c, o)
    \/ GetTokenLock(c)
    \/ GetTokenMint(c)
    \/ GetTokenCached(c)
    \/ Send(c)
    \/ Receive(c)
    \/ ReceiveLogReference(c)
    \/ ReceiveLog(c)
    \/ IntoResult(c)

Next ==
  \/ ClockAdvance
  \/ ClockSetBack
  \/ ClientNext

Spec == Init /\ [][Next]_vars

\* The encoder on its own: the clock and direct new_token calls.
EncoderNext ==
  \/ ClockAdvance
  \/ ClockSetBack
  \/ \E d \in Durations : NewToken(d)

EncoderSpec == Init /\ [][EncoderNext]_vars

\* The client and direct new_token calls side by side, at one clock reading.
SharedNext ==
  \/ ClientNext
  \/ NewToken(1)

SharedSpec == Init /\ [][SharedNext]_vars

\* The one thread whose calls are followed on the wire.
WireCallers == {1}

\* The client on the wire: one thread makes call after call, and every
\* response a call reads is kept on record; at one clock reading.
WireNext ==
  \E c \in WireCallers :
    \/ \E o \in Ops : CallSeen(c, o)
    \/ GetTokenLock(c)
    \/ GetTokenMint(c)
    \/ GetTokenCached(c)
    \/ Send(c)
    \/ ReceiveSeen(c)
    \/ ReceiveLogReferenceSeen(c)
    \/ ReceiveLogSeen(c)
    \/ IntoResult(c)

WireSpec == Init /\ [][WireNext]_vars

(* --------------- ConnectTokenEncoder::from_api_key_id ------------------ *)

\* std::env::current_dir() and dirs::home_dir(), when they have an answer.
CurrentDir == <<"cwd">>
HomeDir == <<"home">>

\* Path::join.
join(path, name) == path \o name

\* format!("AuthKey_{}.p8", key_id)
filename(key_id) == <<"AuthKey_" , key_id, ".p8">>

\* The search list with ~/.private_keys looked at before ~/private_keys.
search_paths_Reordered(cwd, home) ==
  <<join(cwd[1], <<"private_keys">>)>> \o
    (IF home # None
       THEN << join(home[1], <<".private_keys">>),
               join(home[1], <<"private_keys">>),
               join(join(home[1], <<".appstoreconnect">>), <<"private_keys">>) >>
       ELSE <<>>)

\* search_paths: cwd/private_keys, then, when there is a home directory, the
\* three directories under it.
search_paths(cwd, home) ==
  <<join(cwd[1], <<"private_keys">>)>> \o
    (IF home # None
       THEN << join(home[1], <<"private_keys">>),
               join(home[1], <<".private_keys">>),
               join(join(home[1], <<".appstoreconnect">>), <<"private_keys">>) >>
       ELSE <<>>)

\* The directories where a key file may lie, whatever the process knows of its
\* home, and the key files that may lie there.
KeyDirs ==
  { <<"cwd", "private_keys">>, <<"home", "private_keys">>,
    <<"home", ".private_keys">>, <<"home", ".appstoreconnect", "private_keys">> }

KeyFiles == {join(d, filename(i.key_id)) : d \in KeyDirs, i \in Identities}

\* What a key file holds: a PEM encoded ECDSA key, something else, or nothing
\* that can be read.
Contents == {"pem", "garbage", "unreadable"}

\* from_ecdsa_pem_path: std::fs::read(path)?, then from_ecdsa_pem, which fails
\* when EncodingKey::from_ec_pem does.
from_ecdsa_pem_path(key_id, issuer_id, content) ==
  CASE content = "unreadable" -> Err("Io")
    [] content = "garbage" -> Err("JwtEncoding")
    [] content = "pem" ->
         Ok([key_id |-> key_id, issuer_id |-> issuer_id, key_ok |-> TRUE])

\* from_api_key_id is called with the key id and the issuer id of
\* connect_token, in any state of the filesystem and of the process.
KeySearchInit ==
  /\ connect_token \in {i \in Identities : i.key_ok}
  /\ ClientInit
  /\ \E cwd \in {None, Some(CurrentDir)}, home \in {None, Some(HomeDir)},
        files \in SUBSET KeyFiles, content \in Contents :
       search = [pc |-> "start", key_id |-> connect_token.key_id,
                 issuer_id |-> connect_token.issuer_id,
                 cwd |-> cwd, home |-> home, files |-> files, content |-> content,
                 paths |-> <<>>, probed |-> <<>>, result |-> None]

\* `std::env::current_dir()?` and the search list.
FromApiKeyIdStart ==
  /\ search.pc = "start"
  /\ IF search.cwd = None
       THEN search' = [search EXCEPT !.pc = "done", !.result = Some(Err("Io"))]
       ELSE search' = [search EXCEPT !.pc = "probe",
                                     !.paths = search_paths(search.cwd, search.home)]
  /\ UNCHANGED <<connect_token, clock, token, lock, pc, op, held, sent, result,
                 observed, outcome, received, earlier, poisoned, mintCalls,
                 minted>>

\* One turn of the loop: `candidate.exists()` on the next path of the list, and
\* the return of from_ecdsa_pem_path when it does.
FromApiKeyIdProbe ==
  /\ search.pc = "probe"
  /\ Len(search.probed) < Len(search.paths)
  /\ LET candidate ==
           join(search.paths[Len(search.probed) + 1], filename(search.key_id))
     IN  IF candidate \in search.files
           THEN search' = [search EXCEPT
                  !.probed = Append(@, candidate),
                  !.pc = "done",
                  !.result = Some(from_ecdsa_pem_path(search.key_id,
                                    search.issuer_id, search.content))]
           ELSE search' = [search EXCEPT !.probed = Append(@, candidate)]
  /\ UNCHANGED <<connect_token, clock, token, lock, pc, op, held, sent, result,
                 observed, outcome, received, earlier, poisoned, mintCalls,
                 minted>>

\* The loop is over: Err(AppStoreConnectApiKeyNotFound).
FromApiKeyIdNotFound ==
  /\ search.pc = "probe"
  /\ Len(search.probed) = Len(search.paths)
  /\ search' = [search EXCEPT
       !.pc = "done", !.result = Some(Err("AppStoreConnectApiKeyNotFound"))]
  /\ UNCHANGED <<connect_token, clock, token, lock, pc, op, held, sent, result,
                 observed, outcome, received, earlier, poisoned, mintCalls,
                 minted>>

KeySearchNext ==
  \/ FromApiKeyIdStart
  \/ FromApiKeyIdProbe
  \/ FromApiKeyIdNotFound

KeySearchSpec == KeySearchInit /\ [][KeySearchNext]_vars

TypeOK ==
  /\ connect_token \in Identities
  /\ clock \in ClockReadings
  /\ lock \in Callers \cup {NoCaller}
  /\ Len(token) <= 1
  /\ Len(minted) <= MaxMinted

(* ------------------------------ the claims ----------------------------- *)

\* The direct new_token calls on record that returned a credential.
Minted == {i \in DOMAIN minted : minted[i].result.kind = "Ok"}

Credential(i) == minted[i].result.val[1]

\* C4: for any identity and any u64 duration d, new_token(d) produces a
\* credential with exp - iat = d exactly and header kid = the identity's key_id.
C4_ExpiryMinusIssuedAtIsDuration ==
  \A i \in DOMAIN minted :
    connect_token.key_ok =>
      /\ minted[i].result.kind = "Ok"
      /\ Credential(i).exp - Credential(i).iat = minted[i].duration
      /\ Credential(i).kid = connect_token.key_id

\* C5: new_token fails only on a malformed key: with a well-formed key and any
\* u64 duration it returns a credential, with a malformed one an encoding
\* error, and it never aborts.
C5_FailsOnlyOnMalformedKey ==
  \A i \in DOMAIN minted :
    /\ connect_token.key_ok => minted[i].result.kind = "Ok"
    /\ minted[i].result.kind = "Err" =>
         ~connect_token.key_ok /\ minted[i].result = Err("JwtEncoding")

\* C6: every credential new_token produces has iss = the identity's issuer_id,
\* iat = the clock reading of that call and aud = "appstoreconnect-v1",
\* whatever the identity and the duration.
C6_IssuerIssuedAtAudience ==
  \A i \in Minted :
    /\ Credential(i).iss = connect_token.issuer_id
    /\ Credential(i).iat = minted[i].at
    /\ Credential(i).aud = "appstoreconnect-v1"

\* C6 witness: credentials of two durations minted at two clock readings.
C6_Witness ==
  /\ Len(minted) = 2
  /\ Minted = {1, 2}
  /\ minted[1].at # minted[2].at
  /\ minted[1].duration # minted[2].duration
  /\ minted[2].at > 0

\* Two new_token calls, one after the other, with the same duration, both
\* returning a credential.
SuccessivePairs ==
  {i \in Minted : i + 1 \in Minted /\ minted[i].duration = minted[i + 1].duration}

\* C7 as stated: of two successive new_token calls with the same duration the
\* issued_at values are non-decreasing, and strictly increasing when the clock
\* advanced between the calls.
C7_IssuedAtNonDecreasing ==
  \A i \in SuccessivePairs :
    /\ Credential(i + 1).iat >= Credential(i).iat
    /\ minted[i + 1].at > minted[i].at => Credential(i + 1).iat > Credential(i).iat

\* C7 amended: the issued_at values are ordered as the clock readings of the
\* two calls are: non-decreasing when the clock was not set back between them,
\* strictly increasing when it advanced by at least a second.
C7_IssuedAtFollowsClock ==
  \A i \in SuccessivePairs :
    /\ minted[i + 1].at >= minted[i].at => Credential(i + 1).iat >= Credential(i).iat
    /\ minted[i + 1].at > minted[i].at => Credential(i + 1).iat > Credential(i).iat

\* C7 witness: a second call after the clock advanced.
C7_Witness ==
  \E i \in SuccessivePairs : minted[i + 1].at > minted[i].at

\* C8: new_token has no side effect: a direct call leaves the Signing Identity
\* and the client's cached credential as they were, and the cache is written
\* by get_token alone (its minting step).
C8_NewTokenHasNoSideEffect ==
  /\ [][connect_token' = connect_token]_vars
  /\ [][minted' # minted => token' = token]_vars
  /\ [][token' # token =>
          \E c \in Callers : pc[c] = "mint" /\ pc'[c] = "send" /\ held'[c] = token']_vars

\* C8 witness: direct calls on record beside a filled cache of another value.
C8_Witness ==
  /\ token # None
  /\ Len(minted) = 2
  /\ Minted = {1, 2}
  /\ Credential(2) # token[1]

\* The callers that have come out of get_token in their current call.
PastGetToken == {c \in Callers : pc[c] \in {"send", "wait", "wait2", "done"}}

\* C1 as stated: however the first uses of the callers interleave, exactly one
\* mint is performed and every caller obtains the same credential value.
C1_ExactlyOneMint ==
  /\ mintCalls <= 1
  /\ \A c \in PastGetToken :
       /\ mintCalls = 1
       /\ held[c] # None
       /\ \A d \in PastGetToken : held[d] = held[c]

\* C1 amended: with a well-formed key exactly one mint is performed and every
\* caller obtains the same credential, the cached one; with a malformed key
\* every caller's own mint fails, nothing is cached and no caller obtains a
\* credential.
C1_OneMintWhenKeySigns ==
  /\ connect_token.key_ok =>
       /\ mintCalls <= 1
       /\ \A c \in PastGetToken :
            /\ mintCalls = 1
            /\ held[c] # None
            /\ held[c] = token
            /\ \A d \in PastGetToken : held[d] = held[c]
  /\ ~connect_token.key_ok =>
       /\ token = None
       /\ \A c \in Callers : held[c] = None
       /\ \A c \in PastGetToken : result[c] = Some(Err("JwtEncoding"))

\* C1 witness: every caller is in its request at once, all with the
\* credential of the one mint.
C1_Witness ==
  /\ mintCalls = 1
  /\ \A c \in Callers : pc[c] = "wait" /\ held[c] = token /\ token # None

\* C2: the cache is empty at construction, is filled by the first mint, and
\* once filled never changes: every later call uses the cached credential and
\* mints nothing.
C2_CacheFilledOnce ==
  /\ token = None /\ mintCalls = 0
  /\ [][token = None /\ token' # None => mintCalls = 0 /\ mintCalls' = 1]_vars
  /\ [][token # None => token' = token /\ mintCalls' = mintCalls]_vars
  /\ [][\A c \in Callers : held'[c] # held[c] => held'[c] \in {None, token'}]_vars

\* C2 witness: a later call, made after the clock moved on, is in its request
\* with the credential of the one mint.
C2_Witness ==
  /\ mintCalls = 1
  /\ token # None
  /\ clock > token[1].iat
  /\ \E c \in Callers :
       /\ pc[c] = "wait"
       /\ sent[c][1].bearer = token
       /\ \E d \in Callers \ {c} : pc[d] = "done" /\ held[d] = token

\* The cached credential has expired.
Expired == token # None /\ clock > token[1].exp

\* C3: the client mints with a validity of 300 seconds and checks no expiry:
\* an operation issued with the clock past the cached credential's expires_at
\* takes the cached credential, sends it, and does not mint.
C3_NoExpiryCheck ==
  /\ [](token # None => token[1].exp - token[1].iat = 300)
  /\ [][\A c \in Callers :
          Expired /\ pc[c] = "lock" /\ pc'[c] # "lock" =>
            pc'[c] = "cached" /\ token' = token /\ mintCalls' = mintCalls]_vars
  /\ [][\A c \in Callers :
          Expired /\ pc[c] = "cached" /\ pc'[c] # "cached" =>
            pc'[c] = "send" /\ held'[c] = token /\ token' = token]_vars
  /\ [][\A c \in Callers :
          pc[c] = "send" /\ pc'[c] = "wait" =>
            token # None /\ sent'[c] = <<[Request(c) EXCEPT !.bearer = token]>>]_vars

\* C3 witness: a request goes out with the expired credential.
C3_Witness ==
  /\ Expired
  /\ \E c \in Callers : pc[c] = "wait" /\ sent[c][1].bearer = token

\* The callers whose get_submission returned a record, and the status string
\* the server had put in it.
Observers == {c \in Callers : op[c] = "get_submission" /\ observed[c] # None}

\* The callers that have applied into_result to the record they got.
Mapped == {c \in Observers : outcome[c] # None}

Record(c) == result[c][1].val[1]

\* C9: what get_submission and into_result make of a status is decided by the
\* status alone, for every status string: Accepted gives success, "In
\* Progress" the retry signal NotarizeIncomplete, and Invalid, Rejected and
\* every other string a failure that is not the retry signal.
C9_StatusMapping ==
  /\ \A c \in Observers : result[c] # None /\ result[c][1].kind = "Ok"
  /\ \A c \in Mapped :
       /\ observed[c][1] = "Accepted" => outcome[c][1] = Ok(Record(c))
       /\ observed[c][1] = "In Progress" => outcome[c][1] = Err("NotarizeIncomplete")
       /\ observed[c][1] \notin {"Accepted", "In Progress"} =>
            /\ outcome[c][1].kind = "Err"
            /\ outcome[c][1].err \in {"NotarizeInvalid", "NotarizeRejected(0, Notarization error)"}
       /\ \A d \in Mapped : observed[d] = observed[c] => outcome[d] = outcome[c]

\* C9 witness: one caller has the retry signal for "In Progress", another a
\* failure for a string the client does not know.
C9_Witness ==
  \E c, d \in Mapped :
    /\ observed[c][1] = "In Progress"
    /\ observed[d][1] = "Superseded"
    /\ outcome[d][1].kind = "Err"

\* The callers whose record into_result turned into an error.
Refused == {c \in Mapped : outcome[c][1].kind = "Err"}

\* C10 as stated: the outcomes for InProgress, Invalid, Rejected and Unknown
\* are four different results.
C10_FourOutcomes ==
  \A c, d \in Refused :
    Record(c).status # Record(d).status => outcome[c] # outcome[d]

\* The failure into_result reports for a status.
FailureKind(status) ==
  CASE status = "InProgress" -> "incomplete"
    [] status = "Rejected" -> "rejected"
    [] status \in {"Invalid", "Unknown"} -> "invalid"

\* C10 amended: the outcomes distinguish three cases, InProgress, Rejected,
\* and Invalid or Unknown, which share NotarizeInvalid; the record
\* get_submission returns tells all four apart by its status.
C10_ThreeOutcomes ==
  \A c, d \in Refused :
    /\ outcome[c] = outcome[d] <=>
         FailureKind(Record(c).status) = FailureKind(Record(d).status)
    /\ Record(c).status \in {"Invalid", "Unknown"} =>
         outcome[c][1] = Err("NotarizeInvalid")
    /\ observed[c] # observed[d]
         /\ {observed[c][1], observed[d][1]} \subseteq {"In Progress", "Invalid", "Rejected"}
         => result[c] # result[d]

\* C10 witness: Invalid and an unknown status with the same outcome, beside
\* records that differ.
C10_Witness ==
  \E c, d \in Refused :
    /\ Record(c).status = "Invalid"
    /\ Record(d).status = "Unknown"
    /\ outcome[c] = outcome[d]
    /\ result[c] # result[d]

(* ------------------------- the client on the wire ---------------------- *)

\* The calls on record that are over, having read a response.
Answered(o) ==
  {c \in WireCallers : op[c] = o /\ pc[c] = "done" /\ received[c] # <<>>}

\* C11: create_submission succeeds only on HTTP status 200: on any other
\* status it returns NotarizeServerError and no record, whatever the body; on
\* 200 with a well-formed body it returns the record with the server's id and
\* the upload credentials.
C11_SuccessOnlyOn200 ==
  \A c \in Answered("create_submission") :
    LET resp == received[c][1]
    IN  /\ result[c][1].kind = "Ok" => resp.transport_ok /\ resp.status = 200
        /\ resp.transport_ok /\ resp.status # 200 =>
             result[c] = Some(Err("NotarizeServerError"))
        /\ resp.transport_ok /\ resp.status = 200
             /\ resp.body.shape = "NewSubmissionResponse" =>
             result[c] = Some(Ok([id |-> resp.body.id, attributes |-> UploadCredentials]))

\* The calls of get_submission_log on record, at any point.
LogCalls == {c \in WireCallers : op[c] = "get_submission_log"}

\* The first response of a get_submission_log call names the log.
NamesLog(resp) ==
  resp.transport_ok /\ resp.body.shape = "SubmissionLogResponse"

\* C12: get_submission_log fetches in order: first the log reference of the
\* submission id, then developer_log_url as the first response gave it; the
\* second GET is sent only after a first response that decoded, and the result
\* is the second response's body as it came.
C12_TwoFetchesInOrder ==
  \A c \in LogCalls :
    /\ Len(sent[c]) <= 2 /\ Len(received[c]) <= Len(sent[c])
    /\ Len(sent[c]) >= 1 =>
         /\ sent[c][1].method = "GET"
         /\ sent[c][1].url = <<APPLE_NOTARY_SUBMIT_SOFTWARE_URL, SubmissionId, "logs">>
    /\ Len(sent[c]) = 2 =>
         /\ Len(received[c]) >= 1
         /\ NamesLog(received[c][1])
         /\ sent[c][2].method = "GET"
         /\ sent[c][2].url = received[c][1].body.url
    /\ pc[c] = "done" /\ result[c][1].kind = "Ok" =>
         /\ Len(received[c]) = 2
         /\ result[c][1].val = <<received[c][2].body>>
    /\ pc[c] = "done" /\ Len(received[c]) = 2
         /\ received[c][2].transport_ok
         /\ received[c][2].body.shape \notin {"NotJson", "Truncated"} =>
         result[c] = Some(Ok(received[c][2].body))

\* C12 witness: a call returned the document of its second response, read
\* after a first response that named the log.
C12_Witness ==
  \E c \in LogCalls :
    /\ pc[c] = "done"
    /\ Len(received[c]) = 2
    /\ NamesLog(received[c][1])
    /\ received[c][2].body.shape = "OtherJson"
    /\ result[c] = Some(Ok(received[c][2].body))

\* The endpoint of each operation's first request.
Endpoint(o) ==
  CASE o = "create_submission" -> APPLE_NOTARY_SUBMIT_SOFTWARE_URL
    [] o = "get_submission" -> <<APPLE_NOTARY_SUBMIT_SOFTWARE_URL, SubmissionId>>
    [] o = "get_submission_log" -> <<APPLE_NOTARY_SUBMIT_SOFTWARE_URL, SubmissionId, "logs">>

\* C13: every request to the create, status and log reference endpoints carries
\* as bearer the client's cached credential, which is there and is of the
\* client's own identity; the GET of the log itself carries no bearer.
C13_BearerIsCachedCredential ==
  \A c \in Callers :
    \A i \in DOMAIN sent[c] :
      IF i = 1
        THEN /\ sent[c][i].url = Endpoint(op[c])
             /\ sent[c][i].bearer # None
             /\ sent[c][i].bearer = token
             /\ sent[c][i].bearer[1].kid = connect_token.key_id
             /\ sent[c][i].bearer[1].iss = connect_token.issuer_id
        ELSE /\ op[c] = "get_submission_log"
             /\ sent[c][i].url = DeveloperLogUrl
             /\ sent[c][i].bearer = None

\* C13 witness: one caller has sent both requests of get_submission_log while
\* another has sent a request of another operation with the same credential.
C13_Witness ==
  \E c, d \in Callers :
    /\ Len(sent[c]) = 2
    /\ sent[c][1].bearer = token /\ sent[c][2].bearer = None
    /\ op[d] # "get_submission_log"
    /\ Len(sent[d]) = 1
    /\ sent[d][1].bearer = sent[c][1].bearer

\* What the operation o makes of its i-th response.
Decoded(o, i, resp) ==
  CASE o = "create_submission" -> create_submission_result(resp)
    [] o = "get_submission" -> get_submission_result(resp)
    [] o = "get_submission_log" ->
         IF i = 1 THEN get_submission_log_reference(resp)
                  ELSE get_submission_log_result(resp)

\* C14: no operation retries: a call sends at most one request (two for
\* get_submission_log, one to each endpoint), and a failure of the mint, of the
\* transport or of the decoding ends the call there, returned as an error.
C14_NoRetry ==
  \A c \in WireCallers :
    /\ Len(sent[c]) <= (IF op[c] = "get_submission_log" THEN 2 ELSE 1)
    /\ Len(sent[c]) = 2 => sent[c][1].url # sent[c][2].url
    /\ Len(received[c]) <= Len(sent[c])
    /\ \A i \in DOMAIN received[c] :
         Decoded(op[c], i, received[c][i]).kind = "Err" =>
           /\ pc[c] = "done"
           /\ Len(sent[c]) = i /\ Len(received[c]) = i
           /\ result[c] = Some(Decoded(op[c], i, received[c][i]))
    /\ pc[c] = "done" /\ held[c] = None =>
         /\ sent[c] = <<>>
         /\ result[c] # None
         /\ result[c][1].kind \in {"Err", "Panic"}

\* C14 witness: a get_submission_log call ended on its second response, which
\* did not arrive, after two requests; the error is what it returned.
C14_Witness ==
  \E c \in WireCallers :
    /\ op[c] = "get_submission_log"
    /\ pc[c] = "done"
    /\ Len(sent[c]) = 2 /\ Len(received[c]) = 2
    /\ ~received[c][2].transport_ok
    /\ result[c] = Some(Err("Reqwest"))

\* The four conventional places of the key file of key_id, in order.
FourCandidates(key_id) ==
  << <<"cwd", "private_keys", "AuthKey_", key_id, ".p8">>,
     <<"home", "private_keys", "AuthKey_", key_id, ".p8">>,
     <<"home", ".private_keys", "AuthKey_", key_id, ".p8">>,
     <<"home", ".appstoreconnect", "private_keys", "AuthKey_", key_id, ".p8">> >>

\* The places from_api_key_id can look at: all four with a home directory,
\* the first alone without.
Candidates(key_id, home) ==
  IF home # None THEN FourCandidates(key_id)
                 ELSE SubSeq(FourCandidates(key_id), 1, 1)

\* The search went through list in order, took the first file there is and
\* looked no further, and reports the key as not found only with the whole
\* list looked at and nothing there.
SearchedInOrder(list) ==
  /\ Len(search.probed) <= Len(list)
  /\ search.probed = SubSeq(list, 1, Len(search.probed))
  /\ \A i \in DOMAIN search.probed :
       search.probed[i] \in search.files =>
         /\ i = Len(search.probed)
         /\ search.pc = "done"
         /\ search.result =
              Some(from_ecdsa_pem_path(search.key_id, search.issuer_id,
                                       search.content))
  /\ search.pc = "done" /\ search.cwd # None =>
       \/ search.probed # <<>> /\ search.probed[Len(search.probed)] \in search.files
       \/ /\ search.result = Some(Err("AppStoreConnectApiKeyNotFound"))
          /\ search.probed = list
  /\ search.result = Some(Err("AppStoreConnectApiKeyNotFound")) =>
       /\ search.probed = list
       /\ \A i \in DOMAIN list : list[i] \notin search.files

\* C15 as stated: from_api_key_id looks at the four places in order, takes the
\* first where the file is, and returns the not-found error only after all
\* four were looked at and found without it.
C15_AllFourLookedAt == SearchedInOrder(FourCandidates(search.key_id))

\* C15, amended: the same over the places of the search list, which are the
\* four with a home directory and cwd/private_keys alone without one.
C15_SearchListLookedAt ==
  SearchedInOrder(Candidates(search.key_id, search.home))

\* C15 witness: the file was in the third place only and the search, having
\* looked at three, made the encoder from it.
C15_Witness ==
  /\ search.pc = "done"
  /\ Len(search.probed) = 3
  /\ search.probed[3] \in search.files
  /\ FourCandidates(search.key_id)[4] \in search.files
  /\ search.result = Some(Ok(connect_token))

\* C16: what a get_submission call returns, and what into_result makes of it,
\* is decided by the response to that call alone, whatever the caller's call
\* before it saw: "In Progress" gives the retry signal and "Accepted" success;
\* and no step changes the client's identity, nor its cache other than
\* get_token's fill of the empty cache.
C16_OutcomeFromResponseAlone ==
  /\ [](\A c \in Answered("get_submission") :
          LET resp == received[c][1]
          IN  /\ result[c] = Some(get_submission_result(resp))
              /\ resp.transport_ok /\ resp.body.shape = "SubmissionResponse" =>
                   /\ resp.body.status = "In Progress" =>
                        /\ Record(c) = [id |-> resp.body.id, status |-> "InProgress"]
                        /\ outcome[c] \in {None, Some(Err("NotarizeIncomplete"))}
                   /\ resp.body.status = "Accepted" =>
                        /\ Record(c) = [id |-> resp.body.id, status |-> "Accepted"]
                        /\ outcome[c] \in {None, Some(Ok(Record(c)))})
  /\ [][/\ connect_token' = connect_token
        /\ token' # token =>
             /\ token = None
             /\ \E c \in WireCallers : pc[c] = "mint" /\ pc'[c] = "send"]_vars

\* C16 witness: a caller whose call before this one saw "In Progress" and got
\* the retry signal now sees "Accepted" for the same id and gets success.
C16_Witness ==
  \E c \in Answered("get_submission") :
    /\ earlier[c] # None
    /\ earlier[c][1].op = "get_submission"
    /\ earlier[c][1].observed = Some("In Progress")
    /\ earlier[c][1].outcome = Some(Err("NotarizeIncomplete"))
    /\ received[c][1].body.status = "Accepted"
    /\ outcome[c] = Some(Ok(Record(c)))

\* The callers whose mint in get_token has just failed.
MintFailed ==
  {c \in WireCallers : pc[c] = "done" /\ result[c] = Some(Err("JwtEncoding"))}

\* C18: when the mint inside get_token fails, the operation returns that error
\* with no request sent and the cache stays empty, so that the next operation
\* goes to the mint again: a request goes out only with a credential in hand,
\* and get_token takes the cached value only when there is one.
C18_MintFailureSendsNothing ==
  /\ [](\A c \in WireCallers :
          /\ c \in MintFailed => sent[c] = <<>> /\ held[c] = None /\ token = None
          /\ pc[c] \in {"send", "wait", "wait2"} \/ sent[c] # <<>> =>
               held[c] # None /\ held[c] = token
          /\ pc[c] = "done" /\ sent[c] = <<>> =>
               result[c] # None /\ result[c][1].kind \in {"Err", "Panic"}
          /\ ~connect_token.key_ok => token = None)
  /\ [][\A c \in WireCallers :
          pc[c] = "lock" /\ pc'[c] # "lock" /\ token = None =>
            pc'[c] = "mint"]_vars

\* C18 witness: the caller's call before this one ended on a failed mint, and
\* this one has gone to the mint again and ended the same way, nothing sent.
C18_Witness ==
  \E c \in MintFailed :
    /\ earlier[c] # None
    /\ earlier[c][1].result = Some(Err("JwtEncoding"))
    /\ mintCalls = 2
    /\ sent[c] = <<>>
    /\ token = None

\* The callers inside get_token with the guard, and the callers with a
\* request on its way or a response awaited.
InGetToken == {c \in Callers : pc[c] \in {"mint", "cached"}}

InRoundTrip == {c \in Callers : pc[c] \in {"send", "wait", "wait2"}}

\* C19: the guard of the cache is held only inside get_token and is dropped
\* before a request is sent: its holder is never in a round trip, and a caller
\* at the lock finds it free whenever no caller is inside get_token, however
\* many are waiting for the network.
C19_LockOnlyInsideGetToken ==
  /\ \A c \in Callers : lock = c <=> c \in InGetToken
  /\ \A c \in InRoundTrip : lock # c
  /\ \A c \in Callers :
       pc[c] = "lock" /\ InGetToken = {} => LockFree

\* C19 witness: with one caller waiting for a response, another has taken the
\* guard and is at the cached token.
C19_Witness ==
  \E c, d \in Callers :
    /\ pc[c] = "wait"
    /\ pc[d] = "cached"
    /\ lock = d

\* The statuses of SubmissionResponseStatus.
Statuses == {"Accepted", "InProgress", "Invalid", "Rejected", "Unknown"}

\* C20: get_submission returns the decoded record as a success for every
\* status and every HTTP status code, whenever the body decodes; the record
\* becomes an error only under into_result, which gives it back as it is
\* exactly when its status is Accepted.
C20_RecordWhateverStatus ==
  \A c \in Answered("get_submission") :
    LET resp == received[c][1]
    IN  /\ resp.transport_ok /\ resp.body.shape = "SubmissionResponse" =>
             /\ result[c][1].kind = "Ok"
             /\ Record(c).id = resp.body.id
             /\ Record(c).status \in Statuses
             /\ Record(c).status = SubmissionResponseStatus(resp.body.status)
             /\ outcome[c] # None =>
                  /\ outcome[c][1].kind = "Ok" <=> Record(c).status = "Accepted"
                  /\ outcome[c][1].kind = "Ok" => outcome[c][1].val = <<Record(c)>>
        /\ result[c][1].kind = "Ok" =>
             resp.transport_ok /\ resp.body.shape = "SubmissionResponse"

\* C20 witness: a response with HTTP status 500 and a record with status
\* Rejected came back as a success, which into_result then turned into an
\* error.
C20_Witness ==
  \E c \in Answered("get_submission") :
    /\ received[c][1].transport_ok
    /\ received[c][1].status = 500
    /\ received[c][1].body.status = "Rejected"
    /\ result[c] = Some(Ok([id |-> SubmissionId, status |-> "Rejected"]))
    /\ outcome[c] # None
    /\ outcome[c][1].kind = "Err"

====
